---- MODULE Spec2Model ----
(***************************************************************************)
(* BlockCirclebuf<T> of ReplayWorkbench (src/include/blockCirclebuf.hpp):  *)
(* a ring buffer over a chain of blocks, each block carrying the intrusive *)
(* list of the BCPtr cursors that reference it.                            *)
(*                                                                         *)
(* Pointers are integers: an element address is its index in the first     *)
(* superblock allocation (0 .. cap-1), a Block* is a block id, a BCPtr* is *)
(* a cursor name.  Every statement that goes through a pointer is applied  *)
(* in the order of the source, on a heap record H = [blk, cur, mem, st].   *)
(* st records how the running call ended: "ok", "abort" (a failed assert   *)
(* in a build without NDEBUG, or an exception leaving a noexcept           *)
(* function), "ub" (a dereference of a freed block or destroyed cursor, a  *)
(* memcpy of a negative length or outside the allocation) or "hang" (a     *)
(* loop that returns to a state it was in before).  H.skipped records that *)
(* the call went past an assert that does not hold: a build without NDEBUG *)
(* aborts there, a build with NDEBUG goes on, and the variable ndebug is   *)
(* true from then on.  Until then either build is possible.  H.unvisited   *)
(* records that advanceHeadToNextBlock moved head into a block whose       *)
(* tailPassedYet field was false when head was about to enter it, and      *)
(* H.tailTo the block the last advanceTailToNextBlock of the call chose,   *)
(* H.headTo the block the last advanceHeadToNextBlock moved head to.       *)
(***************************************************************************)
EXTENDS Integers, Sequences, FiniteSets, TLC

VARIABLES
  blk,     \* the blocks, by address: fields of Block, live = allocated
  cur,     \* the cursors (BCPtr objects), by name: head, tail, c1, tmp, ...
  mem,     \* the elements of the superblock allocation
  st,      \* "ok", or how the last call failed to return (then nothing runs
           \* and blk, cur, mem are left as they were before that call)
  cap,     \* the elements of the ring: the size it was constructed with and
           \* the sizes of the superblocks allocated since
  ndebug,  \* the run went past a failed assert: the build defines NDEBUG
  last,    \* the last call: operation, arguments, result
  wlog,    \* number of elements handed to write() so far
  lo,      \* reference ring: elements 1 .. lo are read or discarded
  exp,     \* reference ring: what the last read() has to return
  phase,   \* the writes and reads so far: "w" only writes, "r" writes then
           \* reads, "mixed" a write after a read
  ring,    \* the other calls so far: "plain" none, "split" only splits
           \* strictly inside a block, "other" (phase is then "mixed")
  shadow,  \* a ring of the same size given the same writes and reads, never split
  nops,    \* number of calls made
  depth    \* number of calls of any kind the run may make

vars == <<blk, cur, mem, st, cap, ndebug, last, wlog, lo, exp, phase, ring, shadow,
          nops, depth>>

(* ------------------------------ bounds ------------------------------- *)
MaxCap == 3
MaxBlocks == 3
MaxOps == 3
MaxPlainOps == 5
MaxDeepOps == 6
MaxArena == 1
MaxCount == 3
SizeBits == 8

Uninit == 0
NullB == 0
NullC == "null"
NullP == -1
Untouched == 9
Cursors == {"head", "tail", "c1", "tmp", "ohead", "otail"}
ExtCursors == {"c1"}
Blocks == 1 .. MaxBlocks
SizeMod == 2 ^ SizeBits

ToSize(x) == x % SizeMod

DeadBlock ==
  [live |-> FALSE, used |-> FALSE, sb |-> 0, start |-> 0, len |-> 0, next |-> NullB,
   prev |-> NullB, lnext |-> NullB, tpy |-> FALSE, wrp |-> FALSE,
   wrn |-> FALSE, rp |-> NullC]

DeadCursor ==
  [live |-> FALSE, block |-> NullB, ptr |-> NullP, next |-> NullC, prev |-> NullC]

(* ------------------------- heap primitives --------------------------- *)
\* F applied to the value of v: the statements of a function body are chained
\* with it, each taking the heap the statement before it left.
With(v, F(_)) == CHOOSE r \in {F(x) : x \in {v}} : TRUE

Fail(H, how) == IF H.st = "ok" THEN [H EXCEPT !.st = how] ELSE H

BlockOk(H, b) == b \in Blocks /\ H.blk[b].live
CursorOk(H, c) == c \in Cursors /\ H.cur[c].live

\* b->f = v
BSet(H, b, f, v) ==
  IF H.st # "ok" THEN H
  ELSE IF ~BlockOk(H, b) THEN Fail(H, "ub")
  ELSE [H EXCEPT !.blk[b][f] = v]

\* c->f = v
CSet(H, c, f, v) ==
  IF H.st # "ok" THEN H
  ELSE IF ~CursorOk(H, c) THEN Fail(H, "ub")
  ELSE [H EXCEPT !.cur[c][f] = v]

\* the value of b->f, and whether reading it is defined
BGet(H, b, f) == IF BlockOk(H, b) THEN H.blk[b][f] ELSE DeadBlock[f]
CGet(H, c, f) == IF CursorOk(H, c) THEN H.cur[c][f] ELSE DeadCursor[f]

\* reading through b (c) is a use after free unless b (c) is live
BUse(H, b) == IF BlockOk(H, b) THEN H ELSE Fail(H, "ub")
CUse(H, c) == IF CursorOk(H, c) THEN H ELSE Fail(H, "ub")

InBlock(H, b, p) ==
  p >= BGet(H, b, "start") /\ p < BGet(H, b, "start") + BGet(H, b, "len")

\* assert(e) with e false: the call goes on only if the build defines NDEBUG
AssertFails(H) == IF H.st # "ok" THEN H ELSE [H EXCEPT !.skipped = TRUE]

(* ------------------------------ BCPtr -------------------------------- *)
\* BCPtr::BCPtr(Block *block, T *ptr): the caller has checked the range.
\* The new cursor is pushed on the front of block's list.
BCPtrCtor(H, c, b, p) ==
  With(BUse(H, b), LAMBDA H0 :
  With(IF H0.st = "ok"
       THEN [H0 EXCEPT !.cur[c] = [live |-> TRUE, block |-> b, ptr |-> p,
                                   prev |-> NullC, next |-> H0.blk[b].rp]]
       ELSE H0, LAMBDA H1 :
  With(IF BGet(H1, b, "rp") # NullC
       THEN CSet(H1, BGet(H1, b, "rp"), "prev", c) ELSE H1, LAMBDA H2 :
  BSet(H2, b, "rp", c))))

\* the first half of BCPtr::move: the cursor leaves the list of this->block
MoveUnlink(H, c) ==
  IF CGet(H, c, "block") = NullB THEN H
  ELSE With(IF CGet(H, c, "prev") = NullC
            THEN BSet(H, CGet(H, c, "block"), "rp", CGet(H, c, "next"))
            ELSE CSet(H, CGet(H, c, "prev"), "next", CGet(H, c, "next")),
            LAMBDA Ha :
       IF CGet(Ha, c, "next") # NullC
       THEN CSet(Ha, CGet(Ha, c, "next"), "prev", CGet(Ha, c, "prev"))
       ELSE Ha)

\* BCPtr::move(Block *newBlock, T *newPos).  The cursor is unlinked from the
\* list of this->block and pushed on the list of newBlock; this->block itself
\* is assigned only in the newBlock == nullptr branch.
Move(H, c, nb, np) ==
  With(MoveUnlink(H, c), LAMBDA H1 :
  IF nb = NullB
  THEN With(IF np # NullP THEN AssertFails(H1) ELSE H1, LAMBDA Hb :
       With(CSet(Hb, c, "block", NullB), LAMBDA Hc :
       With(CSet(Hc, c, "ptr", NullP), LAMBDA Hd :
       With(CSet(Hd, c, "next", NullC), LAMBDA He :
       CSet(He, c, "prev", NullC)))))
  ELSE With(BUse(H1, nb), LAMBDA Hb :
       With(IF ~InBlock(Hb, nb, np) THEN AssertFails(Hb) ELSE Hb, LAMBDA Hc :
       With(CSet(Hc, c, "prev", NullC), LAMBDA Hd :
       With(CSet(Hd, c, "next", BGet(Hd, nb, "rp")), LAMBDA He :
       With(IF CGet(He, c, "next") # NullC
            THEN CSet(He, CGet(He, c, "next"), "prev", c) ELSE He, LAMBDA Hf :
       With(BSet(Hf, nb, "rp", c), LAMBDA Hg :
       CSet(Hg, c, "ptr", np))))))))

(* ------------------------------ Block -------------------------------- *)
\* Block::getTailPassedYet(): "return this->tailPassedYet == tailPassedYet;"
\* compares the member with itself.
GetTailPassedYet(H, b) == BGet(H, b, "tpy") = BGet(H, b, "tpy")

\* Block::setTailPassedYet(v)
SetTailPassedYet(H, b, v) == BSet(H, b, "tpy", v)

(* --------------------------- BlockCirclebuf -------------------------- *)
\* advanceTailToNextBlock() that also moves the tail cursor to the start of
\* the block it picks
AdvanceTailMoves(H) ==
  LET tb == CGet(H, "tail", "block")
      ln == BGet(H, tb, "lnext")
  IN With(BUse(BUse(H, tb), ln), LAMBDA H1 :
     LET nextBlock == IF BGet(H1, ln, "prev") = tb THEN ln ELSE BGet(H1, tb, "next")
     IN With(SetTailPassedYet(H1, nextBlock, TRUE), LAMBDA H2 :
        With(IF H2.st = "ok" THEN [H2 EXCEPT !.tailTo = nextBlock] ELSE H2, LAMBDA H3 :
        Move(H3, "tail", nextBlock, BGet(H3, nextBlock, "start")))))

\* advanceTailToNextBlock(): picks the next block and sets its flag; the tail
\* cursor itself is not moved.
AdvanceTailToNextBlock(H) ==
  LET tb == CGet(H, "tail", "block")
      ln == BGet(H, tb, "lnext")
  IN With(BUse(BUse(H, tb), ln), LAMBDA H1 :
     LET nextBlock == IF BGet(H1, ln, "prev") = tb THEN ln ELSE BGet(H1, tb, "next")
     IN With(SetTailPassedYet(H1, nextBlock, TRUE), LAMBDA H2 :
        IF H2.st = "ok" THEN [H2 EXCEPT !.tailTo = nextBlock] ELSE H2))

\* The inner loop of advanceHeadToNextBlock(): it calls
\* advanceTailToNextBlock() until nextBlock's flag reads true; a second call
\* changes nothing the first did not, so the loop ends after one call or never.
AdvanceHeadWait(H, nextBlock) ==
  IF GetTailPassedYet(H, nextBlock) THEN H
  ELSE With(AdvanceTailToNextBlock(H), LAMBDA Hb :
       IF GetTailPassedYet(Hb, nextBlock) THEN Hb ELSE Fail(Hb, "hang"))

\* head is about to enter nextBlock (the field is read as stored, before
\* setTailPassedYet(false) overwrites it)
HeadEnters(H, nextBlock) ==
  IF H.st = "ok" /\ ~BGet(H, nextBlock, "tpy") THEN [H EXCEPT !.unvisited = TRUE] ELSE H

\* advanceHeadToNextBlock()
AdvanceHeadToNextBlock(H) ==
  LET hb == CGet(H, "head", "block")
  IN With(BUse(BUse(H, hb), BGet(H, hb, "next")), LAMBDA H0 :
     LET viaNext == ~GetTailPassedYet(H0, BGet(H0, hb, "next"))
         nextBlock == IF viaNext THEN BGet(H0, hb, "next") ELSE BGet(H0, hb, "lnext")
     IN With(IF viaNext THEN H0
             ELSE With(BSet(H0, nextBlock, "prev", hb),
                       LAMBDA Ha : AdvanceHeadWait(Ha, nextBlock)), LAMBDA H1 :
        With(SetTailPassedYet(HeadEnters(H1, nextBlock), nextBlock, FALSE), LAMBDA H2 :
        With(Move(H2, "head", nextBlock, BGet(H2, nextBlock, "start")), LAMBDA H3 :
        IF H3.st = "ok" THEN [H3 EXCEPT !.headTo = nextBlock] ELSE H3))))

\* memcpy(dst, src, n) into the ring's storage from the caller's array src
Memcpy(H, dst, src, n) ==
  IF H.st # "ok" THEN H
  ELSE IF n < 0 \/ n > Len(src) THEN Fail(H, "ub")
  ELSE IF \E i \in 0 .. n - 1 : dst + i \notin DOMAIN H.mem THEN Fail(H, "ub")
  ELSE [H EXCEPT !.mem = [a \in DOMAIN H.mem |->
                            IF a >= dst /\ a < dst + n THEN src[a - dst + 1]
                            ELSE H.mem[a]]]

\* The while loop of write(input, count), one iteration per unfolding.  seen
\* holds the loop states already visited: meeting one again is a hang.
RECURSIVE WriteLoop(_, _, _, _, _)
WriteLoop(H, input, count, numRead, seen) ==
  IF H.st # "ok" \/ ~(numRead < count) THEN H
  ELSE IF <<H, numRead>> \in seen THEN Fail(H, "hang")
  ELSE
    LET numToRead == count - numRead
    IN With(IF CGet(H, "tail", "block") = CGet(H, "head", "block")
               /\ CGet(H, "tail", "ptr") - CGet(H, "head", "ptr") < numToRead
            THEN AdvanceTailToNextBlock(H) ELSE H, LAMBDA H1 :
       With(BUse(H1, CGet(H1, "head", "block")), LAMBDA H2 :
       LET hb == CGet(H1, "head", "block")
           hp == CGet(H1, "head", "ptr")
           spaceLeftInBlock == ToSize(BGet(H2, hb, "start") + BGet(H2, hb, "len") - hp)
       IN IF numToRead < spaceLeftInBlock
          THEN With(Memcpy(H2, hp, input, numToRead), LAMBDA H3 :
               Move(H3, "head", hb, hp + numToRead))
          ELSE With(Memcpy(H2, hp, input, spaceLeftInBlock), LAMBDA H3 :
               With(AdvanceHeadToNextBlock(H3), LAMBDA H4 :
               WriteLoop(H4, input, count, ToSize(numRead + spaceLeftInBlock),
                         seen \cup {<<H, numRead>>})))))

\* write(const T *input, size_t count)
WriteOp(H, input) == WriteLoop(H, input, Len(input), 0, {})

\* memcpyIfNotNull copying one element more than it is asked to
CopyOutOneMore(R, numRead, src, n) ==
  [R EXCEPT !.buf = [k \in DOMAIN R.buf |->
                       IF k > numRead /\ k <= numRead + n + 1
                          /\ src + (k - numRead - 1) \in DOMAIN R.H.mem
                       THEN R.H.mem[src + (k - numRead - 1)]
                       ELSE R.buf[k]]]

\* memcpyIfNotNull(buffer + numRead, src, n) of read(): copies n elements of
\* the ring's storage into the caller's buffer.  R = [H, buf, ret].
CopyOut(R, numRead, src, n) ==
  IF R.H.st # "ok" THEN R
  ELSE IF n < 0 THEN [R EXCEPT !.H = Fail(R.H, "ub")]
  ELSE IF \E i \in 0 .. n - 1 :
            src + i \notin DOMAIN R.H.mem \/ numRead + i + 1 \notin DOMAIN R.buf
       THEN [R EXCEPT !.H = Fail(R.H, "ub")]
  ELSE [R EXCEPT !.buf = [k \in DOMAIN R.buf |->
                            IF k > numRead /\ k <= numRead + n
                            THEN R.H.mem[src + (k - numRead - 1)]
                            ELSE R.buf[k]]]

\* "tail.move(tail.getBlock(), newPos); return ret;" at the end of a pass of
\* read()
ReadReturn(R, newPos, ret) ==
  With(Move(R.H, "tail", CGet(R.H, "tail", "block"), newPos), LAMBDA H1 :
  [R EXCEPT !.H = H1, !.ret = ret])

\* The while loop of read(buffer, count), one iteration per unfolding.
RECURSIVE ReadLoop(_, _, _, _)
ReadLoop(R, count, numRead, seen) ==
  IF R.H.st # "ok" \/ ~(numRead < count) THEN [R EXCEPT !.ret = numRead]
  ELSE IF <<R, numRead>> \in seen THEN [R EXCEPT !.H = Fail(R.H, "hang")]
  ELSE
    LET H == R.H
        numToRead == count - numRead
        hb == CGet(H, "head", "block")
        hp == CGet(H, "head", "ptr")
        tb == CGet(H, "tail", "block")
        tp == CGet(H, "tail", "ptr")
    IN IF hb = tb
       THEN IF hp - tp < numToRead
            THEN With(CopyOut(R, numRead, tp, hp - tp), LAMBDA R1 :
                 ReadReturn(R1, hp, ToSize(numRead + (hp - tp))))
            ELSE With(CopyOut(R, numRead, tp, numToRead), LAMBDA R1 :
                 ReadReturn(R1, tp + numToRead, count))
       ELSE With([R EXCEPT !.H = BUse(H, tb)], LAMBDA R2 :
            LET spaceLeftInBlock ==
                  ToSize(BGet(R2.H, tb, "start") + BGet(R2.H, tb, "len") - tp)
            IN IF numToRead < spaceLeftInBlock
               THEN With(CopyOut(R2, numRead, tp, numToRead), LAMBDA R1 :
                    ReadReturn(R1, tp + numToRead, count))
               ELSE With(CopyOut(R2, numRead, tp, spaceLeftInBlock), LAMBDA R1 :
                    With(AdvanceTailToNextBlock(R1.H), LAMBDA H1 :
                    With([R1 EXCEPT !.H = H1], LAMBDA R3 :
                    ReadLoop(R3, count, numRead, seen \cup {<<R, numRead>>})))))

\* read(T *buffer, size_t count) into a buffer of count elements, all Untouched
ReadOp(H, count) ==
  With([H |-> H, buf |-> [k \in 1 .. count |-> Untouched], ret |-> 0], LAMBDA R :
  ReadLoop(R, count, 0, {}))

\* read(nullptr, count): memcpyIfNotNull tests src, the ring's storage, and
\* not dest, so the copy is made whenever the real buffer's would be; the
\* null buffer has no element that may be written, and a copy of no element
\* is taken to do nothing.
ReadNullOp(H, count) ==
  With([H |-> H, buf |-> <<>>, ret |-> 0], LAMBDA R : ReadLoop(R, count, 0, {}))

(* --------------------------- Block::split ---------------------------- *)
\* a Block constructor that starts the block one element before blockStart
BlockCtorEarlier(H, nb, sb, start, len, prev, next) ==
  IF H.st # "ok" THEN H
  ELSE [H EXCEPT !.blk[nb] =
          [live |-> TRUE, used |-> TRUE, sb |-> sb, start |-> start - 1, len |-> len,
           next |-> next, prev |-> prev, lnext |-> next, tpy |-> TRUE,
           wrp |-> FALSE, wrn |-> FALSE, rp |-> NullC]]

\* The Block constructor split() calls, Block(parentSuperblock, blockStart,
\* blockLength, prev, next), is declared nowhere in the sources; it is taken
\* to initialise the fields it is given and an empty cursor list.  split()
\* assigns every link and the flag of the new block itself afterwards.
BlockCtor(H, nb, sb, start, len, prev, next) ==
  IF H.st # "ok" THEN H
  ELSE [H EXCEPT !.blk[nb] =
          [live |-> TRUE, used |-> TRUE, sb |-> sb, start |-> start, len |-> len,
           next |-> next, prev |-> prev, lnext |-> next, tpy |-> TRUE,
           wrp |-> FALSE, wrn |-> FALSE, rp |-> NullC]]

\* The flag split() gives the new block, from where head and tail stand
SplitTailPassedYet(H, b, sp) ==
  LET tb == CGet(H, "tail", "block")
      tp == CGet(H, "tail", "ptr")
      hb == CGet(H, "head", "block")
      hp == CGet(H, "head", "ptr")
  IN IF tb = b
     THEN IF hb = b
          THEN IF tp >= sp
               THEN (IF hp >= sp THEN hp >= tp ELSE TRUE)
               ELSE (IF hp >= sp THEN FALSE ELSE hp >= tp)
          ELSE tp < sp
     ELSE BGet(H, b, "tpy")

\* One cursor of the old block's list moved to the new block.  The source
\* stores newBlock where a BCPtr* is expected ("referencingPtrs->prev =
\* newBlock", "referencingPtrs = newBlock"); the cursor being moved is the
\* only BCPtr* in scope and is what is modelled.  The old block's
\* referencingPtrs is not assigned anywhere in the loop.
SplitRelink(H, c, nb) ==
  With(IF CGet(H, c, "next") # NullC
       THEN CSet(H, CGet(H, c, "next"), "prev", CGet(H, c, "prev")) ELSE H,
       LAMBDA H1 :
  With(IF CGet(H1, c, "prev") # NullC
       THEN CSet(H1, CGet(H1, c, "prev"), "next", CGet(H1, c, "next")) ELSE H1,
       LAMBDA H2 :
  With(CSet(H2, c, "block", nb), LAMBDA H3 :
  With(CSet(H3, c, "next", BGet(H3, nb, "rp")), LAMBDA H4 :
  With(IF BGet(H4, nb, "rp") # NullC
       THEN CSet(H4, BGet(H4, nb, "rp"), "prev", c) ELSE H4, LAMBDA H5 :
  BSet(H5, nb, "rp", c))))))

\* "update all pointers after the split": the walk over the old block's list
RECURSIVE SplitLoop(_, _, _, _, _)
SplitLoop(H, nb, sp, c, seen) ==
  IF H.st # "ok" \/ c = NullC THEN H
  ELSE IF ~CursorOk(H, c) THEN Fail(H, "ub")
  ELSE IF <<H, c>> \in seen THEN Fail(H, "hang")
  ELSE IF H.cur[c].ptr < sp
       THEN SplitLoop(H, nb, sp, H.cur[c].next, seen \cup {<<H, c>>})
       ELSE With(SplitRelink(H, c, nb), LAMBDA H1 :
            SplitLoop(H1, nb, sp, H.cur[c].next, seen \cup {<<H, c>>}))

\* "if (x->prev == this) x->prev = newBlock;" for x = next and x = logicalNext
SplitBackLink(H, x, b, nb) ==
  With(BUse(H, x), LAMBDA H1 :
  IF BGet(H1, x, "prev") = b THEN BSet(H1, x, "prev", nb) ELSE H1)

\* Block::split(T *splitPoint, circlebuf) on block b, past its range check;
\* nb is the address operator new returns.
Split(H, b, sp, nb) ==
  With(BlockCtor(H, nb, BGet(H, b, "sb"), sp,
                 BGet(H, b, "len") - (sp - BGet(H, b, "start")), b,
                 BGet(H, b, "next")), LAMBDA H1 :
  With(BSet(H1, b, "len", BGet(H1, b, "len") - BGet(H1, nb, "len")), LAMBDA H2 :
  With(SplitBackLink(H2, BGet(H2, b, "next"), b, nb), LAMBDA H3 :
  With(SplitBackLink(H3, BGet(H3, b, "lnext"), b, nb), LAMBDA H4 :
  With(BSet(H4, nb, "prev", b), LAMBDA H5 :
  With(BSet(H5, nb, "next", BGet(H5, b, "next")), LAMBDA H6 :
  With(BSet(H6, nb, "lnext", BGet(H6, b, "lnext")), LAMBDA H7 :
  With(BSet(H7, b, "lnext", nb), LAMBDA H8 :
  With(BSet(H8, b, "next", nb), LAMBDA H9 :
  With(BSet(H9, nb, "tpy", SplitTailPassedYet(H9, b, sp)), LAMBDA H10 :
  With(SplitLoop(H10, nb, sp, BGet(H10, b, "rp"), {}), LAMBDA H11 :
  IF BGet(H11, nb, "rp") # NullC
  THEN CSet(H11, BGet(H11, nb, "rp"), "prev", NullC) ELSE H11)))))))))))

\* the range check at the head of split(): true when it throws out_of_range
SplitThrows(H, b, sp) ==
  sp < BGet(H, b, "start") \/ sp > BGet(H, b, "start") + BGet(H, b, "len")

(* --------------------- Block::attemptReconcileNext ------------------- *)
\* the early "return false" tests without the test of the superblock
ReconcileRefusedAnyArena(H, b) ==
  LET pv == BGet(H, b, "prev")
  IN \/ pv = b
     \/ BGet(H, pv, "start") + BGet(H, pv, "len") # BGet(H, b, "start")

\* the three early "return false" tests
ReconcileRefused(H, b) ==
  LET pv == BGet(H, b, "prev")
  IN \/ pv = b
     \/ BGet(H, pv, "sb") # BGet(H, b, "sb")
     \/ BGet(H, pv, "start") + BGet(H, pv, "len") # BGet(H, b, "start")

\* "update all BCPtrs to point to newly reconciled block"
RECURSIVE ReconcileLoop(_, _, _, _)
ReconcileLoop(H, b, pv, seen) ==
  IF H.st # "ok" \/ BGet(H, b, "rp") = NullC THEN H
  ELSE IF H \in seen THEN Fail(H, "hang")
  ELSE LET c == BGet(H, b, "rp")
       IN With(CSet(H, c, "block", pv), LAMBDA H1 :
          With(IF BGet(H1, pv, "rp") # NullC
               THEN CSet(H1, BGet(H1, pv, "rp"), "prev", c) ELSE H1, LAMBDA H2 :
          With(BSet(H2, b, "rp", CGet(H2, c, "next")), LAMBDA H3 :
          With(CSet(H3, c, "next", BGet(H3, pv, "rp")), LAMBDA H4 :
          With(BSet(H4, pv, "rp", c), LAMBDA H5 :
          ReconcileLoop(H5, b, pv, seen \cup {H}))))))

\* Block::~Block()
RECURSIVE BlockDtorLoop(_, _, _)
BlockDtorLoop(H, b, seen) ==
  IF H.st # "ok" \/ BGet(H, b, "rp") = NullC THEN H
  ELSE IF H \in seen THEN Fail(H, "hang")
  ELSE LET c == BGet(H, b, "rp")
       IN With(CUse(H, c), LAMBDA H0 :
          With(Move(H0, c, NullB, NullP), LAMBDA H1 :
          With(BSet(H1, b, "rp", CGet(H0, c, "next")), LAMBDA H2 :
          BlockDtorLoop(H2, b, seen \cup {H}))))

BlockDtor(H, b) ==
  With(IF BGet(H, b, "prev") # NullB
       THEN BSet(H, BGet(H, b, "prev"), "next", BGet(H, b, "next")) ELSE H,
       LAMBDA H1 :
  With(IF BGet(H1, b, "next") # NullB
       THEN BSet(H1, BGet(H1, b, "next"), "prev", BGet(H1, b, "prev")) ELSE H1,
       LAMBDA H2 :
  BlockDtorLoop(H2, b, {})))

\* operator delete: the block's storage is gone
BlockFree(H, b) ==
  IF H.st # "ok" THEN H ELSE [H EXCEPT !.blk[b] = [DeadBlock EXCEPT !.used = TRUE]]

\* Block::attemptReconcileNext() on block b, past its early returns: b is
\* folded into its prev, destroyed ("this->~Block(); delete this;" runs the
\* destructor twice) and freed.
Reconcile(H, b) ==
  LET pv == BGet(H, b, "prev")
  IN With(BUse(H, pv), LAMBDA H0 :
     With(BSet(H0, pv, "len", BGet(H0, pv, "len") + BGet(H0, b, "len")), LAMBDA H1 :
     With(BSet(H1, pv, "next", BGet(H1, b, "next")), LAMBDA H2 :
     With(BSet(H2, BGet(H2, b, "next"), "prev", pv), LAMBDA H3 :
     With(BSet(H3, pv, "wrn", FALSE), LAMBDA H4 :
     With(ReconcileLoop(H4, b, pv, {}), LAMBDA H5 :
     With(IF BGet(H5, pv, "rp") # NullC
          THEN CSet(H5, BGet(H5, pv, "rp"), "prev", NullC) ELSE H5, LAMBDA H6 :
     With(BlockDtor(H6, b), LAMBDA H7 :
     With(BlockDtor(H7, b), LAMBDA H8 :
     BlockFree(H8, b))))))))))

\* Block::attemptReconcilePrev() on block b: "return
\* next->attemptReconcilePrev();", the same function on the next block, and
\* so on around the ring of next links; a call on a block already in the
\* chain of calls repeats the chain without end.
RECURSIVE AttemptReconcilePrevOp(_, _, _)
AttemptReconcilePrevOp(H, b, seen) ==
  IF H.st # "ok" THEN H
  ELSE IF b \in seen THEN Fail(H, "hang")
  ELSE With(BUse(H, b), LAMBDA H1 :
       AttemptReconcilePrevOp(H1, BGet(H1, b, "next"), seen \cup {b}))

(* ------------------------ allocateSuperblock ------------------------ *)
\* allocateSuperblock(size, prev, next): malloc returns size elements at
\* address base, the allocation becomes superblock sb, and its one block, at
\* address nb, is made by the constructor split() uses, Block(superblock,
\* start, length, prev, next); then prev->next and next->prev are assigned.
AllocateSuperblockOp(H, size, prev, next, nb, sb, base) ==
  With([H EXCEPT !.mem = [a \in DOMAIN H.mem \cup (base .. base + size - 1) |->
                            IF a \in DOMAIN H.mem THEN H.mem[a] ELSE Uninit]],
       LAMBDA H1 :
  With(BlockCtor(H1, nb, sb, base, size, prev, next), LAMBDA H2 :
  With(BSet(H2, prev, "next", nb), LAMBDA H3 :
  BSet(H3, next, "prev", nb))))

(* ------------------- ptrDifference / bufferHealth -------------------- *)
\* BCPtr::BCPtr(const BCPtr &copy) noexcept: delegates to BCPtr(block, ptr),
\* whose range check throws inside noexcept, then links the new cursor a
\* second time, after it has become the head of the list.
BCPtrCopyCtor(H, c, src) ==
  LET b == CGet(H, src, "block")
  IN With(BUse(CUse(H, src), b), LAMBDA H0 :
     With(IF ~InBlock(H0, b, CGet(H0, src, "ptr")) THEN Fail(H0, "abort") ELSE H0,
          LAMBDA H1 :
     With(IF H1.st = "ok" THEN BCPtrCtor(H1, c, b, CGet(H1, src, "ptr")) ELSE H1,
          LAMBDA H2 :
     With(CSet(H2, c, "next", BGet(H2, b, "rp")), LAMBDA H3 :
     With(CSet(H3, c, "prev", NullC), LAMBDA H4 :
     With(IF BGet(H4, b, "rp") # NullC
          THEN CSet(H4, BGet(H4, b, "rp"), "prev", c) ELSE H4, LAMBDA H5 :
     CSet(H5, BGet(H5, b, "rp"), "prev", c)))))))

\* BCPtr::~BCPtr(): unlink, then the cursor's storage is gone
BCPtrDtor(H, c) ==
  With(IF CGet(H, c, "prev") # NullC
       THEN CSet(H, CGet(H, c, "prev"), "next", CGet(H, c, "next")) ELSE H,
       LAMBDA H1 :
  With(IF CGet(H1, c, "next") # NullC
       THEN CSet(H1, CGet(H1, c, "next"), "prev", CGet(H1, c, "prev")) ELSE H1,
       LAMBDA H2 :
  LET b == CGet(H2, c, "block")
  IN With(IF b = NullB THEN H2
          ELSE IF BGet(BUse(H2, b), b, "rp") = c
               THEN BSet(H2, b, "rp", CGet(H2, c, "next"))
               ELSE BUse(H2, b), LAMBDA H3 :
     IF H3.st = "ok" THEN [H3 EXCEPT !.cur[c] = DeadCursor] ELSE H3)))

\* The while loop of ptrDifference(a, b): currentPosn steps to the start of
\* the next block (getNext()) until it is in b's block at or after b.  Its
\* two assignments "currentPosn.getPtr() = ..." / "currentPosn.getBlock() =
\* ..." are taken as assignments to the cursor's ptr and block fields.
\* R = [H, ret]; ret is the accumulator.
RECURSIVE PtrDifferenceLoop(_, _, _)
PtrDifferenceLoop(R, bq, seen) ==
  LET H == R.H
      cb == CGet(H, "tmp", "block")
      cp == CGet(H, "tmp", "ptr")
  IN IF H.st # "ok" THEN R
     ELSE IF ~(cb # CGet(H, bq, "block") \/ cp < CGet(H, bq, "ptr")) THEN R
     ELSE IF <<cb, cp>> \in seen THEN [R EXCEPT !.H = Fail(H, "hang")]
     ELSE With(BUse(BUse(H, cb), BGet(H, cb, "next")), LAMBDA H1 :
          With(CSet(H1, "tmp", "ptr", BGet(H1, BGet(H1, cb, "next"), "start")),
               LAMBDA H2 :
          With(CSet(H2, "tmp", "block", BGet(H2, cb, "next")), LAMBDA H3 :
          With([H |-> H3,
                ret |-> ToSize(R.ret + BGet(H1, cb, "len")
                                 - (cp - BGet(H1, cb, "start")))], LAMBDA R1 :
          PtrDifferenceLoop(R1, bq, seen \cup {<<cb, cp>>})))))

\* ptrDifference(const BCPtr &a, const BCPtr &b)
PtrDifference(H, a, bq) ==
  With(BCPtrCopyCtor(H, "tmp", a), LAMBDA H0 :
  With(PtrDifferenceLoop([H |-> H0, ret |-> 0], bq, {}), LAMBDA R1 :
  With(BCPtrDtor(R1.H, "tmp"), LAMBDA H2 :
  [H |-> H2, ret |-> ToSize(R1.ret + (CGet(R1.H, bq, "ptr") - CGet(R1.H, a, "ptr")))])))

\* bufferHealth()
BufferHealthOp(H) == PtrDifference(H, "tail", "head")

(* ------------------------- move assignment -------------------------- *)
\* BCPtr::operator=(BCPtr &&other) noexcept on cursor c with other == o
BCPtrMoveAssign(H, c, o) ==
  With(CUse(CUse(H, c), o), LAMBDA H0 :
  With(IF CGet(H0, o, "block") # CGet(H0, c, "block")
       THEN With(IF CGet(H0, c, "next") # NullC
                 THEN CSet(H0, CGet(H0, c, "next"), "prev", CGet(H0, c, "prev"))
                 ELSE H0, LAMBDA Ha :
            With(IF CGet(Ha, c, "prev") # NullC
                 THEN CSet(Ha, CGet(Ha, c, "prev"), "next", CGet(Ha, c, "next"))
                 ELSE Ha, LAMBDA Hb :
            With(IF CGet(Hb, c, "block") = NullB THEN Hb
                 ELSE IF BGet(BUse(Hb, CGet(Hb, c, "block")),
                              CGet(Hb, c, "block"), "rp") = c
                      THEN BSet(Hb, CGet(Hb, c, "block"), "rp", CGet(Hb, c, "next"))
                      ELSE BUse(Hb, CGet(Hb, c, "block")), LAMBDA Hc :
            With(CSet(Hc, c, "next", CGet(Hc, o, "next")), LAMBDA Hd :
            With(CSet(Hd, c, "prev", CGet(Hd, o, "prev")), LAMBDA He :
            With(CSet(He, c, "block", CGet(He, o, "block")), LAMBDA Hf :
            With(IF CGet(Hf, c, "block") = NullB THEN Hf
                 ELSE IF BGet(BUse(Hf, CGet(Hf, c, "block")),
                              CGet(Hf, c, "block"), "rp") = o
                      THEN BSet(Hf, CGet(Hf, c, "block"), "rp", c)
                      ELSE BUse(Hf, CGet(Hf, c, "block")), LAMBDA Hg :
            With(IF CGet(Hg, c, "next") # NullC
                 THEN CSet(Hg, CGet(Hg, c, "next"), "prev", c) ELSE Hg, LAMBDA Hh :
            IF CGet(Hh, c, "prev") # NullC
            THEN CSet(Hh, CGet(Hh, c, "prev"), "next", c) ELSE Hh))))))))
       ELSE With(IF CGet(H0, o, "prev") # NullC
                 THEN CSet(H0, CGet(H0, o, "prev"), "next", CGet(H0, o, "next"))
                 ELSE BSet(H0, CGet(H0, o, "block"), "rp", CGet(H0, o, "next")),
                 LAMBDA Ha :
            IF CGet(Ha, o, "next") # NullC
            THEN CSet(Ha, CGet(Ha, o, "next"), "prev", CGet(Ha, o, "prev"))
            ELSE Ha), LAMBDA H1 :
  With(CSet(H1, c, "ptr", CGet(H1, o, "ptr")), LAMBDA H2 :
  With(CSet(H2, o, "block", NullB), LAMBDA H3 :
  With(CSet(H3, o, "ptr", NullP), LAMBDA H4 :
  With(CSet(H4, o, "next", NullC), LAMBDA H5 :
  CSet(H5, o, "prev", NullC)))))))

\* "while (currentBlock)" of ~BlockCirclebuf() and of the move assignment:
\* every block from currentBlock on along getNext() is deleted
RECURSIVE DeleteBlocks(_, _, _)
DeleteBlocks(H, currentBlock, seen) ==
  IF H.st # "ok" \/ currentBlock = NullB THEN H
  ELSE IF <<H, currentBlock>> \in seen THEN Fail(H, "hang")
  ELSE With(BUse(H, currentBlock), LAMBDA H0 :
       LET nextBlock == BGet(H0, currentBlock, "next")
       IN With(BlockFree(BlockDtor(H0, currentBlock), currentBlock), LAMBDA H1 :
          DeleteBlocks(H1, IF nextBlock = currentBlock THEN NullB ELSE nextBlock,
                       seen \cup {<<H, currentBlock>>})))

\* BlockCirclebuf(size) as a second ring beside the one of H: malloc returns
\* size elements at address base, the allocation is superblock sb of the new
\* ring, its one block is at address nb, and the new ring's head and tail
\* are the cursors ohead and otail
OtherRing(H, size, nb, sb, base) ==
  With([H EXCEPT !.mem = [a \in DOMAIN H.mem \cup (base .. base + size - 1) |->
                            IF a \in DOMAIN H.mem THEN H.mem[a] ELSE Uninit],
                 !.blk[nb] = [live |-> TRUE, used |-> TRUE, sb |-> sb, start |-> base,
                              len |-> size, next |-> nb, prev |-> nb, lnext |-> nb,
                              tpy |-> TRUE, wrp |-> FALSE, wrn |-> FALSE,
                              rp |-> NullC]], LAMBDA H1 :
  With(BCPtrCtor(H1, "ohead", nb, base), LAMBDA H2 :
  BCPtrCtor(H2, "otail", nb, base)))

\* cb = BlockCirclebuf<T>(size): the temporary is constructed, operator=
\* deletes the blocks of cb from head.getBlock() on, move-assigns tail, head
\* and superblockAllocations (the allocations cb held are freed), and the
\* temporary is destroyed: its destructor, then its tail and head.
MoveAssignOp(H, size, nb, sb, base) ==
  With(OtherRing(H, size, nb, sb, base), LAMBDA H1 :
  With(DeleteBlocks(CUse(H1, "head"), CGet(H1, "head", "block"), {}), LAMBDA H2 :
  With(BCPtrMoveAssign(H2, "tail", "otail"), LAMBDA H3 :
  With(BCPtrMoveAssign(H3, "head", "ohead"), LAMBDA H4 :
  With(IF H4.st = "ok"
       THEN [H4 EXCEPT !.mem = [a \in base .. base + size - 1 |-> H4.mem[a]]]
       ELSE H4, LAMBDA H5 :
  With(DeleteBlocks(H5, CGet(H5, "ohead", "block"), {}), LAMBDA H6 :
  With(BCPtrDtor(H6, "otail"), LAMBDA H7 :
  BCPtrDtor(H7, "ohead"))))))))

(* ------------------------------ state -------------------------------- *)
\* the heap a call starts on
Heap == [blk |-> blk, cur |-> cur, mem |-> mem, st |-> st, skipped |-> FALSE, unvisited |-> FALSE, tailTo |-> NullB, headTo |-> NullB]

NoCall == [op |-> "new", n |-> 0, b |-> NullB, p |-> NullP, ret |-> 0,
           err |-> "", buf |-> <<>>, unvisited |-> FALSE, tailTo |-> NullB, headTo |-> NullB]

\* BlockCirclebuf(size): one block over the whole allocation, linked to
\* itself (Block(parentContainer, parentSuperblock, blockStart, blockLength)),
\* then head and tail constructed on it in that order.
InitHeap(size) ==
  LET H0 == [blk |-> [b \in Blocks |->
                        IF b = 1
                        THEN [live |-> TRUE, used |-> TRUE, sb |-> 1, start |-> 0, len |-> size,
                              next |-> 1, prev |-> 1, lnext |-> 1, tpy |-> TRUE,
                              wrp |-> FALSE, wrn |-> FALSE, rp |-> NullC]
                        ELSE DeadBlock],
             cur |-> [c \in Cursors |-> DeadCursor],
             mem |-> [a \in 0 .. size - 1 |-> Uninit],
             st |-> "ok", skipped |-> FALSE, unvisited |-> FALSE, tailTo |-> NullB, headTo |-> NullB]
  IN With(BCPtrCtor(H0, "head", 1, 0), LAMBDA H1 : BCPtrCtor(H1, "tail", 1, 0))

NoRead == [ret |-> 0, out |-> <<>>, unread |-> 0]

InitRing ==
  /\ cap \in 1 .. MaxCap
  /\ ndebug = FALSE
  /\ blk = InitHeap(cap).blk
  /\ cur = InitHeap(cap).cur
  /\ mem = InitHeap(cap).mem
  /\ st = "ok"
  /\ last = NoCall
  /\ wlog = 0
  /\ lo = 0
  /\ exp = NoRead
  /\ phase = "w"
  /\ ring = "plain"
  /\ shadow = [H |-> InitHeap(cap), ret |-> 0, buf |-> <<>>]
  /\ nops = 0

Init == InitRing /\ depth = MaxOps

\* the calls explored: depth of any kind, and up to MaxPlainOps while only
\* write() and read() are called
Running == st = "ok" /\ nops < depth

Min(a, b) == IF a <= b THEN a ELSE b
Max(a, b) == IF a >= b THEN a ELSE b

\* only write() and read() were called since construction
plain == ring = "plain"

\* the caller's input of a write of count elements: the elements are numbered
\* in the order they are handed to write, wlog counting those handed so far
Input(count) == [i \in 1 .. count |-> wlog + i]

\* what read() left in the first ret places of the caller's buffer
ReadPrefix(R, count) == [k \in 1 .. Min(R.ret, count) |-> R.buf[k]]

\* How a call that computed heap H can end: as computed, and, when it went
\* past a failed assert, by abort() in a build without NDEBUG.
Endings(H) ==
  IF H.skipped /\ ~ndebug THEN {H.st, "abort"} ELSE {H.st}

\* the call ends in way e: its effects are kept when it returns
Commit(H, e) ==
  /\ st' = e
  /\ ndebug' = (ndebug \/ (H.skipped /\ e # "abort"))
  /\ IF e = "ok"
     THEN blk' = H.blk /\ cur' = H.cur /\ mem' = H.mem
     ELSE UNCHANGED <<blk, cur, mem>>

PlainRunning == st = "ok" /\ (nops < depth \/ (plain /\ nops < MaxPlainOps))

\* the unsplit ring is followed no further
NoShadow == [H |-> [st |-> "none"], ret |-> 0, buf |-> <<>>]

\* a call that is neither write nor read, nor a split inside a block
Structural ==
  /\ ring' = "other"
  /\ phase' = "mixed"
  /\ shadow' = NoShadow
  /\ nops' = nops + 1
  /\ UNCHANGED <<cap, wlog, lo, exp, depth>>

(* ----------------------------- actions ------------------------------- *)
Write(count) ==
  /\ PlainRunning
  /\ \E H \in {WriteOp(Heap, Input(count))} :
        /\ \E e \in Endings(H) : Commit(H, e)
        /\ last' = [NoCall EXCEPT !.op = "write", !.n = count,
                                  !.unvisited = H.unvisited, !.tailTo = H.tailTo,
                                  !.headTo = H.headTo]
  /\ shadow' = IF ring = "other" THEN NoShadow
               ELSE [H |-> WriteOp(shadow.H, Input(count)), ret |-> 0, buf |-> <<>>]
  /\ wlog' = wlog + count
  /\ lo' = Max(lo, wlog + count - cap)
  /\ phase' = IF phase = "r" /\ count > 0 THEN "mixed" ELSE phase
  /\ nops' = nops + 1
  /\ UNCHANGED <<cap, exp, ring, depth>>

Read(count) ==
  /\ PlainRunning
  /\ \E R \in {ReadOp(Heap, count)} :
        /\ \E e \in Endings(R.H) : Commit(R.H, e)
        /\ last' = [NoCall EXCEPT !.op = "read", !.n = count, !.ret = R.ret,
                                  !.buf = R.buf, !.tailTo = R.H.tailTo]
  /\ shadow' = IF ring = "other" THEN NoShadow ELSE ReadOp(shadow.H, count)
  /\ exp' = [ret |-> Min(count, wlog - lo),
             out |-> [k \in 1 .. Min(count, wlog - lo) |-> lo + k],
             unread |-> wlog - lo]
  /\ lo' = lo + Min(count, wlog - lo)
  /\ phase' = IF phase = "w" THEN "r" ELSE phase
  /\ nops' = nops + 1
  /\ UNCHANGED <<cap, wlog, ring, depth>>

\* operator new hands out storage never used before or storage freed earlier
NewAddress(nb) ==
  /\ ~blk[nb].live
  /\ blk[nb].used \/ \A b \in Blocks : b < nb => (blk[b].live \/ blk[b].used)

SplitBlock(b, sp, nb) ==
  /\ Running
  /\ blk[b].live /\ NewAddress(nb)
  /\ IF ring # "other" /\ blk[b].start < sp /\ sp < blk[b].start + blk[b].len
     THEN /\ ring' = "split"
          /\ nops' = nops + 1
          /\ UNCHANGED <<cap, wlog, lo, exp, shadow, phase, depth>>
     ELSE Structural
  /\ IF SplitThrows(Heap, b, sp)
     THEN /\ UNCHANGED <<blk, cur, mem, st, ndebug>>
          /\ last' = [NoCall EXCEPT !.op = "split", !.b = b, !.p = sp,
                                    !.err = "out_of_range"]
     ELSE /\ \E H \in {Split(Heap, b, sp, nb)} : \E e \in Endings(H) : Commit(H, e)
          /\ last' = [NoCall EXCEPT !.op = "split", !.b = b, !.p = sp, !.ret = nb]

AttemptReconcileNext(b) ==
  /\ Running
  /\ blk[b].live
  /\ Structural
  /\ \E H0 \in {BUse(Heap, blk[b].prev)} :
        IF H0.st # "ok" \/ ReconcileRefused(H0, b)
        THEN /\ \E e \in Endings(H0) : Commit(H0, e)
             /\ last' = [NoCall EXCEPT !.op = "reconcile", !.b = b, !.ret = 0]
        ELSE /\ \E H \in {Reconcile(H0, b)} : \E e \in Endings(H) : Commit(H, e)
             /\ last' = [NoCall EXCEPT !.op = "reconcile", !.b = b, !.ret = 1]

\* one past the highest element address allocated
AddrEnd == 1 + CHOOSE a \in DOMAIN mem : \A x \in DOMAIN mem : x <= a

\* the superblocks allocated so far are numbered 1 .. Superblocks
Superblocks ==
  CHOOSE n \in 1 .. MaxBlocks :
    /\ \A b \in Blocks : blk[b].live => blk[b].sb <= n
    /\ \E b \in Blocks : blk[b].live /\ blk[b].sb = n

\* allocateSuperblock(size, prev, prev->next) by the holder of the ring;
\* malloc places the allocation right after the last one (gap = 0) or
\* further on
AllocateSuperblock(size, prev, nb, gap) ==
  /\ Running
  /\ blk[prev].live /\ blk[blk[prev].next].live /\ NewAddress(nb)
  /\ ring' = "other" /\ phase' = "mixed" /\ shadow' = NoShadow
  /\ nops' = nops + 1
  /\ cap' = cap + size
  /\ UNCHANGED <<wlog, lo, exp, depth>>
  /\ \E H \in {AllocateSuperblockOp(Heap, size, prev, blk[prev].next, nb,
                                      Superblocks + 1, AddrEnd + gap)} :
        \E e \in Endings(H) : Commit(H, e)
  /\ last' = [NoCall EXCEPT !.op = "allocate", !.n = size, !.b = prev,
                            !.p = AddrEnd + gap, !.ret = nb]

\* BCPtr c(block, ptr) by a holder outside the ring
NewCursor(c, b, p) ==
  /\ Running
  /\ ~cur[c].live /\ blk[b].live
  /\ Structural
  /\ IF ~InBlock(Heap, b, p)
     THEN /\ UNCHANGED <<blk, cur, mem, st, ndebug>>
          /\ last' = [NoCall EXCEPT !.op = "cursor", !.b = b, !.p = p,
                                    !.err = "out_of_range"]
     ELSE /\ \E H \in {BCPtrCtor(Heap, c, b, p)} : \E e \in Endings(H) : Commit(H, e)
          /\ last' = [NoCall EXCEPT !.op = "cursor", !.b = b, !.p = p]

\* c.move(b, p) on a cursor held outside the ring
MoveCursor(c, b, p) ==
  /\ Running
  /\ cur[c].live /\ blk[b].live
  /\ Structural
  /\ \E H \in {Move(Heap, c, b, p)} : \E e \in Endings(H) : Commit(H, e)
  /\ last' = [NoCall EXCEPT !.op = "move", !.b = b, !.p = p]

AttemptReconcilePrev(b) ==
  /\ Running
  /\ blk[b].live
  /\ Structural
  /\ \E H \in {AttemptReconcilePrevOp(Heap, b, {})} :
        \E e \in Endings(H) : Commit(H, e)
  /\ last' = [NoCall EXCEPT !.op = "reconcileprev", !.b = b]

\* BCPtr c(src) by a holder outside the ring, src being head or tail
CopyCursor(c, src) ==
  /\ Running
  /\ ~cur[c].live /\ cur[src].live
  /\ Structural
  /\ \E H \in {BCPtrCopyCtor(Heap, c, src)} : \E e \in Endings(H) : Commit(H, e)
  /\ last' = [NoCall EXCEPT !.op = "copy", !.b = cur[src].block, !.p = cur[src].ptr]

\* read(nullptr, count) by the holder of the ring
ReadNull(count) ==
  /\ Running
  /\ Structural
  /\ \E R \in {ReadNullOp(Heap, count)} :
        /\ \E e \in Endings(R.H) : Commit(R.H, e)
        /\ last' = [NoCall EXCEPT !.op = "readnull", !.n = count, !.ret = R.ret]

BufferHealth ==
  /\ Running
  /\ Structural
  /\ \E R \in {BufferHealthOp(Heap)} :
        /\ \E e \in Endings(R.H) : Commit(R.H, e)
        /\ last' = [NoCall EXCEPT !.op = "health", !.ret = R.ret]

\* the smallest number that no superblock of a live block carries
FreshSuperblock ==
  CHOOSE n \in 1 .. MaxBlocks + 1 :
    /\ \A b \in Blocks : blk[b].live => blk[b].sb # n
    /\ \A m \in 1 .. n - 1 : \E b \in Blocks : blk[b].live /\ blk[b].sb = m

\* cb = BlockCirclebuf<T>(size) by the holder of the ring; malloc places the
\* new ring's allocation right after the last one
MoveAssign(size, nb) ==
  /\ Running
  /\ NewAddress(nb)
  /\ ring' = "other" /\ phase' = "mixed" /\ shadow' = NoShadow
  /\ nops' = nops + 1
  /\ cap' = size
  /\ UNCHANGED <<wlog, lo, exp, depth>>
  /\ \E H \in {MoveAssignOp(Heap, size, nb, FreshSuperblock, AddrEnd)} :
        \E e \in Endings(H) : Commit(H, e)
  /\ last' = [NoCall EXCEPT !.op = "assign", !.n = size, !.p = AddrEnd, !.ret = nb]

Next ==
  \/ \E count \in 0 .. MaxCount : Write(count)
  \/ \E count \in 0 .. MaxCount : Read(count)
  \/ \E b \in Blocks, nb \in Blocks, sp \in 0 .. AddrEnd : SplitBlock(b, sp, nb)
  \/ \E b \in Blocks : AttemptReconcileNext(b)
  \/ \E c \in ExtCursors, b \in Blocks, p \in 0 .. AddrEnd : NewCursor(c, b, p)
  \/ \E c \in ExtCursors, b \in Blocks, p \in 0 .. AddrEnd : MoveCursor(c, b, p)
  \/ BufferHealth
  \/ \E size \in 1 .. MaxArena, prev \in Blocks, nb \in Blocks, gap \in 0 .. 1 :
        AllocateSuperblock(size, prev, nb, gap)
  \/ \E size \in 1 .. MaxCap, nb \in Blocks : MoveAssign(size, nb)
  \/ \E count \in 0 .. MaxCount : ReadNull(count)
  \/ \E c \in ExtCursors, src \in {"head", "tail"} : CopyCursor(c, src)
  \/ \E b \in Blocks : AttemptReconcilePrev(b)

Spec == Init /\ [][Next]_vars

\* Longer runs of write(), attemptReconcileNext() and split() strictly
\* inside a block alone
InitDeep == InitRing /\ depth = MaxDeepOps

NextDeep ==
  \/ \E count \in 0 .. MaxCount : Write(count)
  \/ \E b \in Blocks, nb \in Blocks, sp \in 0 .. cap :
        /\ blk[b].start < sp /\ sp < blk[b].start + blk[b].len
        /\ SplitBlock(b, sp, nb)
  \/ \E b \in Blocks : AttemptReconcileNext(b)

SpecDeep == InitDeep /\ [][NextDeep]_vars

\* The calls that change the chain of blocks and the cursor lists, on the
\* ring as constructed: split within the block's range,
\* attemptReconcileNext and allocateSuperblock
NextChain ==
  \/ \E b \in Blocks, nb \in Blocks, sp \in 0 .. AddrEnd :
        blk[b].live /\ ~SplitThrows(Heap, b, sp) /\ SplitBlock(b, sp, nb)
  \/ \E b \in Blocks : AttemptReconcileNext(b)
  \/ \E size \in 1 .. MaxArena, prev \in Blocks, nb \in Blocks, gap \in 0 .. 1 :
        AllocateSuperblock(size, prev, nb, gap)

SpecChain == Init /\ [][NextChain]_vars

\* The writer on a ring that grows: write, split inside a block and
\* allocateSuperblock
NextArena ==
  \/ \E count \in 0 .. MaxCount : Write(count)
  \/ \E b \in Blocks, nb \in Blocks, sp \in 0 .. AddrEnd :
        /\ blk[b].live /\ blk[b].start < sp /\ sp < blk[b].start + blk[b].len
        /\ SplitBlock(b, sp, nb)
  \/ \E size \in 1 .. MaxArena, prev \in Blocks, nb \in Blocks, gap \in 0 .. 1 :
        AllocateSuperblock(size, prev, nb, gap)

SpecArena == Init /\ [][NextArena]_vars

(* ===================== properties of the ring ======================== *)
\* the elements first .. first + n - 1 of the write stream
Stream(first, n) == [k \in 1 .. n |-> first + k - 1]

\* the last read returned what the reference ring returns: the count, the
\* elements in the first places of the buffer, the rest of the buffer untouched
ReadAsReference ==
  /\ st = "ok"
  /\ last.ret = exp.ret
  /\ \A k \in DOMAIN last.buf :
       last.buf[k] = IF k <= exp.ret THEN exp.out[k] ELSE Untouched

\* C1: round trip.  On a fresh ring, after writes that together do not
\* exceed the capacity (nothing unread is overwritten), each of the reads
\* that follow returns the next elements in the order written, whatever the
\* chunk sizes: reads asking for the total written return all of it.
C1_RoundTrip ==
  (last.op = "read" /\ phase = "r" /\ wlog <= cap) => ReadAsReference

\* C2: discard on overflow keeps the newest data.  On a fresh ring, after
\* writes of L > N elements in all and no read in between, the reads that
\* follow return the last N elements written, oldest first.
C2_NewestKept ==
  (last.op = "read" /\ phase = "r" /\ wlog > cap) => ReadAsReference

\* C3: read(buf, count) returns min(count, unread), copies exactly that many
\* elements, oldest first, and leaves the rest of the buffer untouched.
C3_ReadCount == last.op = "read" => ReadAsReference

\* C5: a full ring is not an empty one.  After exactly N elements were
\* written into the empty ring of capacity N, read(buf, N) returns N and the
\* N elements in order.
C5_FullNotEmpty ==
  (last.op = "read" /\ phase = "r" /\ exp.unread = cap /\ last.n = cap /\ wlog = cap)
    => (st = "ok" /\ last.ret = cap /\ ReadPrefix(last, cap) = Stream(1, cap))

(* --------------------------- the plain ring --------------------------- *)
\* The ring driven by write() and read() alone, never split.
NextPlain ==
  \/ \E count \in 0 .. MaxCount : Write(count)
  \/ \E count \in 0 .. MaxCount : Read(count)

SpecPlain == Init /\ [][NextPlain]_vars

\* The cursors on the list of block b, from referencingPtrs along next, in
\* heap (B, C); the walk stops at a cursor it has met or at a destroyed one.
RECURSIVE ListFrom(_, _, _)
ListFrom(C, c, seen) ==
  IF c = NullC \/ c \in seen \/ ~C[c].live THEN <<>>
  ELSE <<c>> \o ListFrom(C, C[c].next, seen \cup {c})

ListOf(B, C, b) == ListFrom(C, B[b].rp, {})

Range(s) == {s[k] : k \in DOMAIN s}

\* what a block is, apart from the order of its cursor list
BlockView(B, C, b) == <<[B[b] EXCEPT !.rp = NullC], Range(ListOf(B, C, b))>>

\* where a cursor stands
Posn(C, c) == <<C[c].live, C[c].block, C[c].ptr>>

\* the step is a call of read() on the ring never split
PlainReadStep == last'.op = "read" /\ nops' = nops + 1 /\ ring' = "plain"

\* C4: read on the never-split ring that holds no unread data (everything
\* written was read or discarded) returns 0, writes nothing into the
\* caller's buffer, and leaves head, tail, the stored elements and every
\* block (its range, links, flags and the cursors on its list) as they were.
\* The code re-links tail at the front of its block's list, so the order of
\* that list is not part of what is compared.
C4_EmptyRead ==
  [][(PlainReadStep /\ wlog = lo) =>
       /\ st' = "ok"
       /\ last'.ret = 0
       /\ \A k \in DOMAIN last'.buf : last'.buf[k] = Untouched
       /\ mem' = mem
       /\ \A c \in Cursors : Posn(cur', c) = Posn(cur, c)
       /\ \A b \in Blocks : BlockView(blk', cur', b) = BlockView(blk, cur, b)]_vars

\* C4 witness: fewer elements than the ring holds were written and read
\* back, and a read asking for more found the ring empty
C4_Witness ==
  /\ last.op = "read" /\ plain /\ st = "ok"
  /\ wlog > 0 /\ wlog < cap /\ exp.unread = 0 /\ last.n > 0 /\ last.ret = 0

(* ------------------------- bufferHealth ------------------------------ *)
\* a read asking for more than the ring can hold, on the heap as it stands
UnboundedRead == ReadOp(Heap, cap + 1)

\* the step is a call of bufferHealth()
HealthStep == last'.op = "health" /\ nops' = nops + 1

\* C6: bufferHealth() terminates and returns the distance from tail to head,
\* the number of elements an unbounded read would return at that moment
\* (where such a read returns).
C6_HealthIsUnread ==
  [][(HealthStep /\ UnboundedRead.H.st = "ok") =>
       (st' = "ok" /\ last'.ret = UnboundedRead.ret)]_vars

\* C7: whenever a call has returned, after any writes, reads, splits and
\* merges, the value bufferHealth() returns is at most the capacity of the
\* ring.
C7_HealthBounded ==
  (st = "ok" /\ BufferHealthOp(Heap).H.st = "ok") => BufferHealthOp(Heap).ret <= cap

(* ------------------------------ split -------------------------------- *)
\* C8: split transparency.  A ring whose blocks were split strictly inside,
\* given the same writes and reads as the unsplit ring of the same capacity,
\* returns from each call the unsplit ring returns from, and its reads
\* return the same counts and elements.
C8_SplitTransparent ==
  (ring = "split" /\ last.op \in {"write", "read"} /\ shadow.H.st = "ok") =>
     /\ st = "ok"
     /\ last.op = "read" => (last.ret = shadow.ret /\ last.buf = shadow.buf)

\* the walk from c along next ends at nullptr, through live cursors only
RECURSIVE EndsClean(_, _, _)
EndsClean(C, c, seen) ==
  IF c = NullC THEN TRUE
  ELSE IF c \in seen \/ ~C[c].live THEN FALSE
  ELSE EndsClean(C, C[c].next, seen \cup {c})

\* every live cursor is on the list of the block it references, and the lists
\* hold nothing else
WellListed(B, C) ==
  /\ \A b \in Blocks : B[b].live =>
       /\ EndsClean(C, B[b].rp, {})
       /\ \A c \in Range(ListOf(B, C, b)) : C[c].block = b
  /\ \A c \in Cursors : C[c].live =>
       /\ C[c].block \in Blocks
       /\ B[C[c].block].live
       /\ c \in Range(ListOf(B, C, C[c].block))

\* the step is a call of split() that returned; it split block last'.b at
\* last'.p and made block last'.ret
SplitStep == last'.op = "split" /\ nops' = nops + 1 /\ last'.err = ""

\* the split point lies strictly inside the block split
InsideSplit ==
  /\ blk[last'.b].start < last'.p
  /\ last'.p < blk[last'.b].start + blk[last'.b].len

\* C9: split relocates cursors exactly.  When split(at), with at strictly
\* inside the block, returns, every cursor
\* that was on the split block's list at an offset >= at references the new
\* block, is on the new block's list and no longer on the old block's, at the
\* same offset; every cursor at an offset < at is still on the old block's
\* list, where it stood.
C9_SplitRelocates ==
  [][(SplitStep /\ InsideSplit /\ st' = "ok" /\ WellListed(blk, cur)) =>
       \A c \in Range(ListOf(blk, cur, last'.b)) :
         IF cur[c].ptr >= last'.p
         THEN /\ Posn(cur', c) = <<TRUE, last'.ret, cur[c].ptr>>
              /\ c \in Range(ListOf(blk', cur', last'.ret))
              /\ c \notin Range(ListOf(blk', cur', last'.b))
         ELSE /\ Posn(cur', c) = Posn(cur, c)
              /\ c \in Range(ListOf(blk', cur', last'.b))
              /\ c \notin Range(ListOf(blk', cur', last'.ret))]_vars

\* C10: split at p of the block covering [s, e), s < p < e, leaves that block
\* covering [s, p) and makes one new block covering [p, e) in the same
\* arena, with original.next = new, new.prev = original, new.next = the
\* original's former next, and that block's prev = new.
C10_SplitLinks ==
  [][(SplitStep /\ InsideSplit) =>
       LET b == last'.b
           nb == last'.ret
           e == blk[b].start + blk[b].len
       IN /\ st' = "ok"
          /\ blk'[b].live /\ blk'[b].start = blk[b].start
          /\ blk'[b].len = last'.p - blk[b].start
          /\ blk'[nb].live /\ blk'[nb].start = last'.p
          /\ blk'[nb].len = e - last'.p
          /\ blk'[nb].sb = blk[b].sb
          /\ {x \in Blocks : blk'[x].live} = {x \in Blocks : blk[x].live} \cup {nb}
          /\ blk'[b].next = nb
          /\ blk'[nb].prev = b
          /\ blk'[nb].next = blk[b].next
          /\ blk'[blk[b].next].prev = nb]_vars

(* ------------------------------ merge -------------------------------- *)
\* the step is a call of attemptReconcileNext() on block last'.b
ReconcileStep == last'.op = "reconcile" /\ nops' = nops + 1

\* the call merged the block into its predecessor and returned true
Merged == ReconcileStep /\ last'.ret = 1 /\ st' = "ok"

\* the heap after the step
HeapAfter == [blk |-> blk', cur |-> cur', mem |-> mem', st |-> st', skipped |-> FALSE, unvisited |-> FALSE, tailTo |-> NullB, headTo |-> NullB]

\* C11: merge transparency.  When attemptReconcileNext() merges block B into
\* its physical predecessor P and returns true: P keeps its start and grows
\* by B's length; every cursor that referenced B references P at the same
\* offset and is on P's list; every cursor that referenced P stands where it
\* stood and is still on P's list if it was; B is freed and no live block
\* links to it through next or prev; the stored elements are untouched, and
\* every read that returned before the merge returns the same count and
\* elements after it.
C11_MergeTransparent ==
  [][Merged =>
       LET B == last'.b
           P == blk[B].prev
       IN /\ blk'[P].live /\ blk'[P].start = blk[P].start
          /\ blk'[P].len = blk[P].len + blk[B].len
          /\ \A c \in Cursors : (cur[c].live /\ cur[c].block = B) =>
               /\ Posn(cur', c) = <<TRUE, P, cur[c].ptr>>
               /\ c \in Range(ListOf(blk', cur', P))
          /\ \A c \in Cursors : (cur[c].live /\ cur[c].block = P) =>
               /\ Posn(cur', c) = Posn(cur, c)
               /\ c \in Range(ListOf(blk, cur, P)) => c \in Range(ListOf(blk', cur', P))
          /\ ~blk'[B].live
          /\ \A x \in Blocks : blk'[x].live => (blk'[x].next # B /\ blk'[x].prev # B)
          /\ mem' = mem
          /\ \A n \in 1 .. cap :
               ReadOp(Heap, n).H.st = "ok" =>
                 /\ ReadOp(HeapAfter, n).H.st = "ok"
                 /\ ReadOp(HeapAfter, n).ret = ReadOp(Heap, n).ret
                 /\ ReadOp(HeapAfter, n).buf = ReadOp(Heap, n).buf]_vars

(* ----------------------------- exclusion ----------------------------- *)
\* The blocks of the rotation: those met from block b along logicalNext.
\* The source has no "active" flag; a block is excluded from the active
\* buffer when getLogicalNext() skips it (569-575).
RECURSIVE Rotation(_, _, _)
Rotation(B, b, seen) ==
  IF b \notin Blocks \/ b \in seen \/ ~B[b].live THEN seen
  ELSE Rotation(B, B[b].lnext, seen \cup {b})

\* live blocks the rotation that starts at head's block does not visit
Excluded(B, C) ==
  {b \in Blocks : B[b].live} \ Rotation(B, C["head"].block, {})

\* head stands in a live block and logicalNext leads from it through live
\* blocks only, back into the blocks already met
Rotating(B, C) ==
  LET R == Rotation(B, C["head"].block, {})
  IN R # {} /\ \A b \in R : B[b].lnext \in R

\* C12: an excluded block is never merged away.  attemptReconcileNext() on
\* a block the rotation skips returns false and frees nothing, and a block
\* is freed only by a merge of a block of the rotation.
C12_ExcludedNotMerged ==
  [][(st' = "ok" /\ Rotating(blk, cur)) =>
       /\ (ReconcileStep /\ last'.b \in Excluded(blk, cur)) =>
            (last'.ret = 0 /\ \A b \in Blocks : blk'[b].live = blk[b].live)
       /\ \A b \in Blocks : (blk[b].live /\ ~blk'[b].live) =>
            (Merged /\ last'.b = b /\ b \notin Excluded(blk, cur))]_vars

\* the block attemptReconcileNext() is called on is its own predecessor, or
\* lies in another superblock than its predecessor, or does not start where
\* its predecessor ends
NotMergeable(b) ==
  LET P == blk[b].prev
  IN \/ P = b
     \/ blk[P].sb # blk[b].sb
     \/ blk[P].start + blk[P].len # blk[b].start

C14_ReentryOrdering == last.op = "write" => ~last.unvisited

WriteStep == last'.op = "write" /\ nops' = nops + 1

\* the element addresses of block b
RangeOf(B, b) == B[b].start .. B[b].start + B[b].len - 1

\* C15: exclusion non-interference for the writer: a write that returns, made
\* while head's block is on a closed logical rotation, copies no element into
\* the range of a block the rotation skips and does not leave head at an
\* address inside such a block.
C15_WriterSkipsExcluded ==
  [][(WriteStep /\ st' = "ok" /\ Rotating(blk, cur)) =>
       \A b \in Excluded(blk, cur) :
          /\ \A a \in RangeOf(blk, b) : mem'[a] = mem[a]
          /\ cur'["head"].ptr # cur["head"].ptr => cur'["head"].ptr \notin RangeOf(blk, b)]_vars

LogicalView(H) ==
  [H EXCEPT !.blk = [b \in Blocks |->
                       IF H.blk[b].live THEN [H.blk[b] EXCEPT !.next = H.blk[b].lnext]
                       ELSE H.blk[b]]]

\* C17: bufferHealth() walks the logical chain: whenever head's block is on a
\* closed logical rotation and bufferHealth() returns, it returns what the
\* same walk returns when every block's successor is its logical successor,
\* so that the length of a block the rotation skips is not counted.
C17_HealthWalksLogical ==
  (st = "ok" /\ Rotating(blk, cur) /\ BufferHealthOp(Heap).H.st = "ok"
     /\ BufferHealthOp(LogicalView(Heap)).H.st = "ok")
  => BufferHealthOp(Heap).ret = BufferHealthOp(LogicalView(Heap)).ret

\* C18: write(input, count) never fails and always returns: on a ring whose
\* layout comes from splits inside blocks, with head anywhere, every call of
\* write, for every count, returns.
C18_WriteReturns ==
  [][(WriteStep /\ ring \in {"plain", "split"}) => st' = "ok"]_vars

ReadStep == last'.op = "read" /\ nops' = nops + 1

\* C19: read(buf, count) always returns: on a ring whose layout comes from
\* splits inside blocks, also with tail and head in different blocks and
\* count at least the space left in tail's block, the loop of read ends.
C19_ReadReturns ==
  [][(ReadStep /\ ring \in {"plain", "split"}) => st' # "hang"]_vars

\* the blocks reached from b along next
RECURSIVE Chain(_, _, _)
Chain(B, b, seen) ==
  IF b \notin Blocks \/ b \in seen \/ ~B[b].live THEN seen
  ELSE Chain(B, B[b].next, seen \cup {b})

\* the physical chain is one circular doubly-linked list of the live blocks
OneRing(B) ==
  LET Live == {b \in Blocks : B[b].live}
  IN \A b \in Live :
        /\ B[b].next \in Live /\ B[b].prev \in Live
        /\ B[B[b].next].prev = b
        /\ B[B[b].prev].next = b
        /\ Chain(B, b, {}) = Live

\* C20: invariant I1: after any sequence of split, merge, allocateSuperblock,
\* write and read calls that returned, the physical chain is one circular
\* doubly-linked list containing every live block (b.next.prev = b and
\* b.prev.next = b for every block b, and every block is reached from every
\* other along next); in particular the advance of head in write alters no
\* physical link.
C20_PhysicalRing == st = "ok" => OneRing(blk)

\* C21: invariant I2: after any sequence of split, merge and
\* allocateSuperblock calls that returned, logicalNext of every live block
\* (no call takes a block out of the active buffer, so every live block is
\* active) is a live block, and it is the physically next block.
C21_LogicalNext ==
  st = "ok" =>
    \A b \in Blocks : blk[b].live =>
       /\ blk[b].lnext \in Blocks /\ blk[blk[b].lnext].live
       /\ blk[b].lnext = blk[b].next

\* C22: invariant I3: after any sequence of splits and merges that returned,
\* the ranges [start, start + length) of the live blocks of one superblock
\* are pairwise disjoint.
C22_RangesDisjoint ==
  st = "ok" =>
    \A a \in Blocks, b \in Blocks :
       (a # b /\ blk[a].live /\ blk[b].live /\ blk[a].sb = blk[b].sb) =>
          RangeOf(blk, a) \cap RangeOf(blk, b) = {}

\* two blocks of one superblock lie side by side after a split and a merge
C22_Witness ==
  /\ st = "ok" /\ last.op = "reconcile" /\ last.ret = 1
  /\ \E a \in Blocks, b \in Blocks :
        /\ a # b /\ blk[a].live /\ blk[b].live /\ blk[a].sb = blk[b].sb
        /\ blk[a].len > 0 /\ blk[b].len > 0
        /\ blk[a].start + blk[a].len = blk[b].start

\* C23: invariant I4: whenever a call has returned, every live cursor (head,
\* tail, an external cursor) references a live block and its pointer lies in
\* [start, start + length) of that block.
C23_CursorInBlock ==
  st = "ok" =>
    \A c \in Cursors : cur[c].live =>
       /\ cur[c].block \in Blocks /\ blk[cur[c].block].live
       /\ cur[c].ptr \in RangeOf(blk, cur[c].block)

\* C24: invariant I5: whenever a call has returned, every live cursor is
\* exactly once on the cursor list of the block it references and on no
\* other block's list, and no list holds a destroyed cursor.
C24_CursorListed == st = "ok" => WellListed(blk, cur)

\* the step is a call of split, returning or throwing
SplitCall == last'.op = "split" /\ nops' = nops + 1

\* C25: split rejects a split point that is not strictly inside the block (at
\* its start, at or beyond its end, before its start): the call reports an
\* error, creates no block and leaves all blocks, links and cursors
\* unchanged.
C25_SplitRejects ==
  [][(SplitCall /\ ~InsideSplit) =>
       (last'.err # "" /\ blk' = blk /\ cur' = cur)]_vars

\* the step is the construction of a cursor, or a call of move on one
CursorCall == last'.op \in {"cursor", "move"} /\ nops' = nops + 1

\* C26: constructing a cursor at, or moving a cursor to, an address outside
\* [start, start + length) of the block is reported as an error (an
\* exception, or the abort of a failed assert), and the cursor lists are
\* left as they were.
C26_OutOfRangeReported ==
  [][(CursorCall /\ last'.p \notin RangeOf(blk, last'.b)) =>
       /\ last'.err # "" \/ st' = "abort"
       /\ blk' = blk /\ cur' = cur]_vars

\* the step is a call of allocateSuperblock that returned
AllocateStep == last'.op = "allocate" /\ nops' = nops + 1 /\ st' = "ok"

\* C27: allocateSuperblock(size, prev, next) with next == prev.next, on a ring
\* whose physical and logical chains agree at prev, inserts exactly one new
\* block of length size, of a new superblock, physically and logically
\* between prev and next, and leaves every cursor and the range of every
\* existing block unchanged.
C27_AllocateInserts ==
  [][(AllocateStep /\ blk[blk[last'.b].next].prev = last'.b
        /\ blk[last'.b].lnext = blk[last'.b].next) =>
       LET new == last'.ret
           prev == last'.b
           next == blk[last'.b].next
       IN /\ ~blk[new].live /\ blk'[new].live
          /\ blk'[new].len = last'.n
          /\ \A b \in Blocks : blk[b].live => blk[b].sb # blk'[new].sb
          /\ \A b \in Blocks \ {new} :
                /\ blk'[b].live = blk[b].live
                /\ blk'[b].start = blk[b].start /\ blk'[b].len = blk[b].len
                /\ blk'[b].sb = blk[b].sb
          /\ blk'[prev].next = new /\ blk'[new].prev = prev
          /\ blk'[new].next = next /\ blk'[next].prev = new
          /\ blk'[prev].lnext = new /\ blk'[new].lnext = next
          /\ cur' = cur]_vars

\* the ring is as BlockCirclebuf(size) leaves it, with its one block at
\* address b over the elements from base on: empty, head and tail the two
\* cursors of b's list, no other cursor on a block, and write of one element
\* followed by read(2) returns that element alone
FreshRing(size, b, base) ==
  /\ \A x \in Blocks : blk[x].live <=> x = b
  /\ blk[b].start = base /\ blk[b].len = size
  /\ blk[b].next = b /\ blk[b].prev = b /\ blk[b].lnext = b
  /\ \A c \in {"head", "tail"} :
        cur[c].live /\ cur[c].block = b /\ cur[c].ptr = base
  /\ blk[b].rp = "tail" /\ cur["tail"].prev = NullC /\ cur["tail"].next = "head"
  /\ cur["head"].prev = "tail" /\ cur["head"].next = NullC
  /\ \A c \in Cursors \ {"head", "tail"} : cur[c].live => cur[c].block = NullB
  /\ ReadOp(Heap, 1).H.st = "ok" /\ ReadOp(Heap, 1).ret = 0
  /\ LET W == WriteOp(Heap, Input(1))
         R == ReadOp(W, 2)
     IN /\ W.st = "ok" /\ R.H.st = "ok"
        /\ R.ret = 1 /\ R.buf[1] = Input(1)[1]

\* C28: after cb = BlockCirclebuf<T>(N) on a ring in any state, cb is as a
\* ring just constructed with capacity N: empty, head and tail registered on
\* the new block, write of 1 element then read of 2 returns 1 and that
\* element, and no block of the old ring is referenced.
C28_AssignedIsFresh ==
  last.op = "assign" => (st = "ok" /\ FreshRing(last.n, last.ret, last.p))

\* C29: from the same ring state, read(nullptr, count) returns what
\* read(buffer, count) returns and leaves tail, head and every block as
\* read(buffer, count) leaves them, and stores no element anywhere.
C29_NullSinkDiscards ==
  [][(last'.op = "readnull" /\ nops' = nops + 1
        /\ ReadOp(Heap, last'.n).H.st = "ok") =>
       /\ st' = "ok"
       /\ last'.ret = ReadOp(Heap, last'.n).ret
       /\ cur' = ReadOp(Heap, last'.n).H.cur
       /\ blk' = ReadOp(Heap, last'.n).H.blk
       /\ mem' = mem]_vars

MoveInside ==
  /\ last'.op = "move" /\ nops' = nops + 1 /\ st' = "ok"
  /\ last'.p \in RangeOf(blk, last'.b)

\* cursor c is on the list of block b
OnList(B, C, c, b) == b \in Blocks /\ c \in Range(ListOf(B, C, b))

\* C32: after c.move(newBlock, newPos) with newPos inside newBlock the cursor
\* has getBlock() == newBlock and getPtr() == newPos, is on newBlock's list
\* and, when newBlock is not the block it was on, no longer on that block's
\* list.
C32_MoveRelocates ==
  [][(MoveInside /\ OnList(blk, cur, "c1", cur["c1"].block)) =>
       /\ cur'["c1"].block = last'.b
       /\ cur'["c1"].ptr = last'.p
       /\ OnList(blk', cur', "c1", last'.b)
       /\ cur["c1"].block # last'.b =>
            ~OnList(blk', cur', "c1", cur["c1"].block)]_vars

\* the step is a write or a read that returned after it had called
\* advanceTailToNextBlock; nothing else in either moves tail to another block
TailAdvanced ==
  /\ last'.op \in {"write", "read"} /\ nops' = nops + 1 /\ st' = "ok"
  /\ last'.tailTo # NullB

\* C33: advanceTailToNextBlock leaves tail at the start of the block it picks
\* (logicalNext when that block's prev is tail's block, else next).
C33_TailAdvances ==
  [][TailAdvanced =>
       /\ cur'["tail"].block = last'.tailTo
       /\ cur'["tail"].ptr = blk'[last'.tailTo].start]_vars

\* the step is a write of exactly the elements that fit between head and the
\* end of its block: its last statement is the call of advanceHeadToNextBlock
HeadAdvanced ==
  /\ WriteStep /\ st' = "ok" /\ last'.headTo # NullB
  /\ cur["head"].block \in Blocks
  /\ last'.n = blk[cur["head"].block].start + blk[cur["head"].block].len
                 - cur["head"].ptr

\* C34: advanceHeadToNextBlock leaves head at the start of the block it
\* picks, on that block's cursor list, and that block's tailPassedYet false.
C34_HeadAdvances ==
  [][HeadAdvanced =>
       /\ cur'["head"].block = last'.headTo
       /\ cur'["head"].ptr = blk'[last'.headTo].start
       /\ OnList(blk', cur', "head", last'.headTo)
       /\ ~blk'[last'.headTo].tpy]_vars

\* C35: on every block of the ring, getTailPassedYet() called right after
\* setTailPassedYet(v) returns v, for v true and for v false.
C35_FlagReadsBack ==
  st = "ok" =>
    \A b \in Blocks : \A v \in BOOLEAN :
      blk[b].live => GetTailPassedYet(SetTailPassedYet(Heap, b, v), b) = v

\* the list of block b ends at nullptr and each cursor's prev is the cursor
\* before it
ListLinked(B, C, b) ==
  /\ EndsClean(C, B[b].rp, {})
  /\ LET l == ListOf(B, C, b)
     IN \A k \in DOMAIN l :
          C[l[k]].prev = IF k = 1 THEN NullC ELSE l[k - 1]

\* the step copy-constructs c1 from a cursor that is inside its block and on
\* that block's well-linked list
CopyStep ==
  /\ last'.op = "copy" /\ nops' = nops + 1
  /\ last'.b \in Blocks /\ blk[last'.b].live
  /\ last'.p \in RangeOf(blk, last'.b)
  /\ ListLinked(blk, cur, last'.b)

\* C36: the copy is at the block and offset of the cursor copied and on that
\* block's list; the list is acyclic, ends at nullptr, has consistent
\* next/prev links and holds every cursor it held before.
C36_CopyRegisters ==
  [][CopyStep =>
       /\ st' = "ok"
       /\ cur'["c1"].live
       /\ cur'["c1"].block = last'.b /\ cur'["c1"].ptr = last'.p
       /\ ListLinked(blk', cur', last'.b)
       /\ Range(ListOf(blk', cur', last'.b)) =
            Range(ListOf(blk, cur, last'.b)) \cup {"c1"}]_vars

\* the step is a call of attemptReconcileNext or attemptReconcilePrev on a
\* block of a ring whose blocks form one cycle of next/prev links and whose
\* cursors are on the lists of their blocks
ReconcileCall ==
  /\ last'.op \in {"reconcile", "reconcileprev"} /\ nops' = nops + 1
  /\ OneRing(blk) /\ WellListed(blk, cur)

\* C37: the call returns, and it returns true exactly when the block was
\* merged into its predecessor.
C37_ReconcileReturns ==
  [][ReconcileCall =>
       /\ st' = "ok"
       /\ (last'.ret = 1) <=> ~blk'[last'.b].live]_vars

\* C38: bufferHealth() (ptrDifference(tail, head)) is a pure query: when it
\* returns, every cursor and every block (range, flags, links, cursor list)
\* is as it was before the call, and nothing refers to the temporary cursor
\* of the walk.
C38_HealthIsPure ==
  [][(HealthStep /\ st' = "ok") => (cur' = cur /\ blk' = blk)]_vars

\* split of block b at sp into a new block nb, then
\* nb->attemptReconcileNext(), on the heap as it stands
SplitThenMerge(b, sp, nb) ==
  With(Split(Heap, b, sp, nb), LAMBDA H1 :
  With(BUse(H1, BGet(H1, nb, "prev")), LAMBDA H2 :
  IF H2.st # "ok" \/ ReconcileRefused(H2, nb) THEN H2 ELSE Reconcile(H2, nb)))

\* the links and range of a block
Links(B, b) == <<B[b].start, B[b].len, B[b].next, B[b].prev, B[b].lnext>>

\* C39: splitting a block strictly inside it and at once merging the new
\* block into its predecessor restores every block's start, length, next,
\* prev and logicalNext and every cursor's block, offset and list.
C39_SplitMergeIdentity ==
  (st = "ok" /\ OneRing(blk) /\ WellListed(blk, cur)) =>
    \A b \in Blocks, nb \in Blocks, sp \in 0 .. AddrEnd :
      (blk[b].live /\ NewAddress(nb)
         /\ blk[b].start < sp /\ sp < blk[b].start + blk[b].len) =>
        LET H == SplitThenMerge(b, sp, nb)
        IN /\ H.st = "ok"
           /\ \A x \in Blocks : H.blk[x].live = blk[x].live
           /\ \A x \in Blocks : blk[x].live =>
                /\ Links(H.blk, x) = Links(blk, x)
                /\ Range(ListOf(H.blk, H.cur, x)) = Range(ListOf(blk, cur, x))
           /\ \A c \in Cursors : Posn(H.cur, c) = Posn(cur, c)

====
